---------------------------- MODULE Spec2Model ----------------------------
(***************************************************************************)
(* The example servers of the Phoenix AID backend templates.               *)
(*                                                                         *)
(* The example servers are alternatives: one of them runs.  A step of the  *)
(* model is one HTTP exchange: a request arrives at one handler of the     *)
(* running server, passes the server's CORS middleware, and the handler's  *)
(* return value or raised exception is rendered as the response.           *)
(* SpecEx8 follows Example 8 alone at a finer grain, one step per stretch  *)
(* of code between two awaits, with several handlers in progress at once.  *)
(*                                                                         *)
(* Conventions                                                             *)
(*  - Python None / JSON null / an absent optional parameter is <<>>, a    *)
(*    present optional value v is <<v>>.                                   *)
(*  - Coordinates are fixed-point, in hundredths of a degree: the source's *)
(*    lat + 0.05 is lat + 5.  Confidences and scores are in hundredths.    *)
(*  - A JSON object is a function from its keys to its values.             *)
(*  - The ML model is outside the repository: what it computes for the     *)
(*    uploaded image (a value or a raised exception) travels with the      *)
(*    request as model_out.                                                *)
(***************************************************************************)
EXTENDS Integers, Sequences, FiniteSets, TLC

\* The field names of the requests, responses, JSON objects and table rows.
\* Every record of this module lists its fields in this order.
FieldNames ==
    DOMAIN [message |-> 0, app |-> 0, route |-> 0, origin |-> 0,
            has_image |-> 0, id |-> 0, image_id |-> 0, filename |-> 0,
            file_size |-> 0, read_error |-> 0, size |-> 0, format |-> 0,
            width |-> 0, height |-> 0, upload |-> 0, timestamp |-> 0,
            form_timestamp |-> 0, query_timestamp |-> 0, location |-> 0,
            latitude |-> 0, longitude |-> 0, lat |-> 0, lng |-> 0,
            radius |-> 0, wildfire_data |-> 0, model_out |-> 0,
            error |-> 0, value |-> 0, label |-> 0, proba |-> 0,
            wildfires |-> 0, total |-> 0, radius_km |-> 0,
            center_lat |-> 0, center_lng |-> 0, intensity |-> 0,
            status |-> 0, media |-> 0, body |-> 0, exc |-> 0,
            allow_origin |-> 0, detail |-> 0, loc |-> 0, msg |-> 0,
            active_wildfires |-> 0, risk_level |-> 0, confidence |-> 0,
            all_scores |-> 0, low |-> 0, medium |-> 0, high |-> 0,
            last_update |-> 0, prediction |-> 0, affected_areas |-> 0,
            recommendations |-> 0, infrastructure |-> 0, evacuation |-> 0,
            infrastructure_type |-> 0, action |-> 0, priority |-> 0,
            estimated_time |-> 0, evacuation_routes |-> 0,
            alternate_routes |-> 0, area |-> 0, detected_at |-> 0,
            affected_infrastructure |-> 0, detection |-> 0,
            risk_assessment |-> 0, infrastructure_impact |-> 0, resp |-> 0,
            files |-> 0, images |-> 0, detections |-> 0,
            phase |-> 0, request |-> 0, model |-> 0, thread |-> 0,
            result |-> 0, overtaken |-> 0]

VARIABLES
    server,       \* the example server that runs
    req,          \* the request of the last exchange
    resp,         \* the response of the last exchange
    started,      \* Example 8: the startup event has run
    model_cache,  \* Example 8: the lru_cache of load_model, <<>> or <<model>>
    files,        \* database example: paths written under uploads/images
    wildfire_images,      \* database example: committed wildfire_images rows
    wildfire_detections,  \* database example: committed wildfire_detections rows
    loader,       \* Example 8: the to_thread(load_model) call of the startup event
    loads,        \* Example 8: how often the body of load_model has run
    tasks         \* Example 8: the request handlers in progress

vars == <<server, req, resp, started, model_cache, files, wildfire_images,
          wildfire_detections, loader, loads, tasks>>

None == <<>>
Some(v) == <<v>>
Val(o) == o[1]

\* Python truthiness of an Optional[float]: None and 0.0 are falsy.
Truthy(o) == o # <<>> /\ Val(o) # 0

-----------------------------------------------------------------------------
(* Servers and routes *)

Template     == "api_server_template"
Backend      == "backend_integration_example"
BackendFlask == "backend_integration_example.flask"
MapApp       == "backend_map_endpoints_example"
Ex1 == "integration_examples.1"
Ex2 == "integration_examples.2"
Ex3 == "integration_examples.3"
Ex4 == "integration_examples.4"
Ex5 == "integration_examples.5"
Ex6 == "integration_examples.6"
Ex7 == "integration_examples.7"
Ex8 == "integration_examples.8"
Ex9 == "integration_examples.9"
DbApp == "database_example"

Status  == "GET /api/status"
Upload  == "POST /api/upload-image"
Predict == "POST /api/predict"
Infra   == "POST /api/infrastructure/recommendations"
Nearby  == "GET /api/wildfires/nearby"
Active  == "GET /api/wildfires/active"

-----------------------------------------------------------------------------
(* CORS *)

Localhost == "http://localhost:3000"
Loopback  == "http://127.0.0.1:3000"
Foreign   == "http://example.org"

\* The Origin header of a request.
Origins == {Localhost, Loopback, Foreign}

\* allow_origins of the CORSMiddleware each server installs.  "*" is
\* flask_cors's default; the map endpoints file installs no middleware.
allow_origins(app) ==
    CASE app \in {Template, Backend} -> {Localhost, Loopback}
      [] app \in {Ex1, Ex2, Ex3, Ex4, Ex5, Ex6, Ex7, Ex8, Ex9} -> {Localhost}
      [] app = BackendFlask -> {"*"}
      [] OTHER -> {}

\* The Access-Control-Allow-Origin header of a response: the request's
\* origin when it is allowed, otherwise no header.
allow_origin_header(app, origin) ==
    IF origin \in allow_origins(app) \/ "*" \in allow_origins(app)
    THEN Some(origin) ELSE None

-----------------------------------------------------------------------------
(* Requests *)

\* What `await image.read()` and PIL make of an uploaded file: reading may
\* raise; Image.open raises on bytes it cannot identify; a "corrupt" file has
\* a readable header (Image.open succeeds, size is known) and broken data
\* (verify() raises).
UploadFile(read_error, size, format, width, height) ==
    [read_error |-> read_error, size |-> size, format |-> format,
     width |-> width, height |-> height]

MinDim == 100

ReadFails  == UploadFile(Some("connection reset"), 0, "unidentified", 0, 0)
EmptyFile  == UploadFile(None, 0, "unidentified", 0, 0)
Garbage    == UploadFile(None, 3, "unidentified", 0, 0)
Corrupt    == UploadFile(None, 4, "corrupt", MinDim, MinDim)
Narrow     == UploadFile(None, 5, "image", MinDim - 1, MinDim)
Flat       == UploadFile(None, 6, "image", MinDim, MinDim - 1)
Picture    == UploadFile(None, 9, "image", MinDim, MinDim)
NoFile     == UploadFile(None, 0, "none", 0, 0)

Uploads    == {ReadFails, Garbage, Corrupt, Narrow, Picture}
AllUploads == Uploads \cup {EmptyFile, Flat}

Filenames == {"", "fire.jpg"}

\* What the ML model does with the image: raises, or returns a value.
Raises(msg)  == [error |-> Some(msg), value |-> <<>>]
Returns(v)   == [error |-> None, value |-> v]
NoModel      == Returns(<<>>)

RiskVocabulary == {"low", "medium", "high", "critical"}

\* Score vectors of a three-class model (hundredths), a tie among them.
ScoreOutputs == {Returns(<<10, 20, 70>>), Returns(<<50, 50, 0>>),
                 Returns(<<20, 45, 35>>), Raises("model failed")}
\* predict(...)[0] and predict_proba(...)[0] of a binary classifier.
ClassifierOutputs ==
    {Returns([label |-> 1, proba |-> <<20, 80>>]),
     Returns([label |-> 0, proba |-> <<90, 10>>]),
     Raises("model failed")}
\* A prediction object as the frontend expects it, and one whose label the
\* frontend does not know.
PredictionOutputs ==
    {Returns([risk_level |-> "high", confidence |-> 85]),
     Returns([risk_level |-> "low", confidence |-> 60]),
     Returns([risk_level |-> "extreme", confidence |-> 99]),
     Raises("model failed")}

\* Coordinates (hundredths of a degree) and radii (km) a client may send.
Coordinates == {None, Some(0), Some(3777)}
Radii       == {None, Some(0), Some(3)}
Timestamps  == {None, Some("2024-05-01T10:00:00Z")}

BaseRequest(app, route, origin) ==
    [app |-> app, route |-> route, origin |-> origin,
     has_image |-> FALSE, filename |-> "", upload |-> NoFile,
     form_timestamp |-> None, query_timestamp |-> None,
     latitude |-> None, longitude |-> None,
     lat |-> None, lng |-> None, radius |-> None,
     wildfire_data |-> None, model_out |-> NoModel]

\* GET requests without parameters.
PlainRequests(app, route) == {BaseRequest(app, route, o) : o \in Origins}

\* multipart/form-data requests: with an image part (any file, any model
\* behaviour on it), or without one.
ImageRequests(app, route, uploads, outs) ==
    {[BaseRequest(app, route, o) EXCEPT !.has_image = TRUE, !.filename = f,
                                        !.upload = u, !.model_out = m] :
        o \in Origins, f \in Filenames, u \in uploads, m \in outs}
    \cup PlainRequests(app, route)

\* The timestamp travels as a form field, as a query parameter, or not at all.
WithTimestamp(rs) ==
    {[r EXCEPT !.form_timestamp = t] : r \in rs, t \in Timestamps}
    \cup {[r EXCEPT !.query_timestamp = t] : r \in rs, t \in Timestamps}

WithLocation(rs) ==
    {[r EXCEPT !.latitude = p[1], !.longitude = p[2]] :
        r \in rs, p \in {<<None, None>>, <<Some(0), Some(3777)>>,
                         <<Some(3777), None>>, <<Some(3777), Some(-12241)>>}}

JsonRequests(app, route) ==
    {[r EXCEPT !.wildfire_data = d] :
        r \in PlainRequests(app, route), d \in {None, Some("wildfire-1")}}

QueryRequests(app, route) ==
    {[r EXCEPT !.lat = a, !.lng = b, !.radius = k] :
        r \in PlainRequests(app, route),
        a \in Coordinates, b \in {None, Some(-12241)}, k \in Radii}

-----------------------------------------------------------------------------
(* Responses *)

\* A JSON response.  exc records the exception (its str) that the handler's
\* code raised while reading the upload, decoding it or calling the model,
\* whatever became of it.
Json(status, body) ==
    [status |-> status, media |-> "json", body |-> body, exc |-> None]

\* raise HTTPException(status_code, detail), rendered by FastAPI
HTTPException(status_code, detail) == Json(status_code, [detail |-> detail])

\* HTTPException(status_code, detail) raised in an except clause that caught e
Handled(e, status_code, detail) ==
    [HTTPException(status_code, detail) EXCEPT !.exc = Some(e)]

\* The except clause that closes the handlers of the template, the backend
\* example and the map endpoints:
\*     except Exception as e: raise HTTPException(status_code=500, detail=str(e))
except_Exception_fixed_detail(e) == Handled(e, 500, "Internal Server Error")

except_Exception(e) == Handled(e, 500, e)

\* An exception that leaves a FastAPI handler: ServerErrorMiddleware, which
\* wraps the CORS middleware, answers with plain text.
Uncaught(e) ==
    [status |-> 500, media |-> "text", body |-> "Internal Server Error",
     exc |-> Some(e)]

\* An exception that leaves a Flask view: Flask answers with an HTML page.
UncaughtFlask(e) ==
    [status |-> 500, media |-> "html", body |-> "Internal Server Error",
     exc |-> Some(e)]

\* FastAPI's answer to a request that lacks a required parameter: 422 with a
\* list of validation errors as detail.
RequestValidationError(field) ==
    Json(422, [detail |-> <<[loc |-> field, msg |-> "field required"]>>])

\* str(e) of what Image.open raises for bytes it cannot identify.
UnidentifiedImageError == "cannot identify image file"
\* str(e) of what verify() raises on broken image data.
VerifyError == "broken data stream"

\* contents = await image.read(): the exception raised, if any
read(r) == r.upload.read_error

\* Image.open(io.BytesIO(contents)): the exception raised, if any
Image_open_lazy(r) == None   \* an open that accepts any bytes

Image_open(r) ==
    IF r.upload.format = "unidentified" THEN Some(UnidentifiedImageError)
    ELSE None

\* The two statements every upload handler starts with.
read_and_open(r) == IF read(r) # None THEN read(r) ELSE Image_open(r)

-----------------------------------------------------------------------------
(* api_server_template.py *)

status_body ==
    [status |-> "operational", active_wildfires |-> 0, risk_level |-> "low",
     last_update |-> "2024-01-01T00:00:00Z"]

get_status_template(r) == Json(200, status_body)

upload_prediction ==
    [risk_level |-> "medium", confidence |-> 75,
     recommendations |-> <<"Monitor area for 24 hours",
                           "Prepare evacuation routes",
                           "Alert nearby infrastructure">>]

\* if latitude and longitude: response["location"] = {...}
include_location(response, latitude, longitude) ==
    IF Truthy(latitude) /\ Truthy(longitude)
    THEN [message |-> response.message, filename |-> response.filename,
          size |-> response.size, timestamp |-> response.timestamp,
          location |-> [lat |-> Val(latitude), lng |-> Val(longitude)],
          prediction |-> response.prediction]
    ELSE response

upload_image_template(r) ==
    IF ~r.has_image THEN RequestValidationError("image")
    ELSE LET e == read_and_open(r) IN
         IF e # None THEN except_Exception(Val(e))
         ELSE Json(200, include_location(
                  [message |-> "Image uploaded successfully",
                   filename |-> r.filename,
                   size |-> r.upload.size,
                   timestamp |-> r.form_timestamp,
                   prediction |-> upload_prediction],
                  r.latitude, r.longitude))

predict_body ==
    [risk_level |-> "high", confidence |-> 85,
     affected_areas |-> <<"Area A", "Area B">>,
     recommendations |->
        [infrastructure |-> <<"Secure power lines in affected zone",
                              "Prepare water supply systems",
                              "Alert transportation department">>,
         evacuation |-> <<"Route 1: Clear", "Route 2: Monitor">>]]

\* A handler that derives the confidence from the upload.
predict_wildfire_template_echo(r) ==
    IF ~r.has_image THEN RequestValidationError("image")
    ELSE LET e == read_and_open(r) IN
         IF e # None THEN except_Exception(Val(e))
         ELSE Json(200, [predict_body EXCEPT !.confidence = r.upload.size])

predict_wildfire_template(r) ==
    IF ~r.has_image THEN RequestValidationError("image")
    ELSE LET e == read_and_open(r) IN
         IF e # None THEN except_Exception(Val(e))
         ELSE Json(200, predict_body)

recommendations_body ==
    [recommendations |->
        <<[infrastructure_type |-> "power_lines",
           action |-> "De-energize affected lines",
           priority |-> "high", estimated_time |-> "2 hours"],
          [infrastructure_type |-> "water_supply",
           action |-> "Increase water pressure in fire zones",
           priority |-> "high", estimated_time |-> "30 minutes"]>>,
     evacuation_routes |->
        [status |-> "clear", alternate_routes |-> <<"Route A", "Route B">>]]

get_infrastructure_recommendations_template(r) ==
    IF r.wildfire_data = None THEN RequestValidationError("wildfire_data")
    ELSE Json(200, recommendations_body)

DefaultRadius == 50

\* radius: float = Query(50)
radius_param(r) == IF r.radius = None THEN DefaultRadius ELSE Val(r.radius)

get_wildfires_nearby_template(r) ==
    IF r.lat = None THEN RequestValidationError("lat")
    ELSE IF r.lng = None THEN RequestValidationError("lng")
    ELSE Json(200, [wildfires |-> <<>>, total |-> 0,
                    radius_km |-> radius_param(r)])

get_all_active_wildfires_template(r) ==
    Json(200, [wildfires |-> <<>>, total |-> 0])

-----------------------------------------------------------------------------
(* backend_integration_example.py *)

get_status_backend(r) == Json(200, status_body)

\* The handler never opens the upload as an image.  timestamp is declared
\* without Form(), so FastAPI takes it from the query string.
upload_image_backend(r) ==
    IF ~r.has_image THEN RequestValidationError("image")
    ELSE IF read(r) # None THEN except_Exception(Val(read(r)))
    ELSE Json(200, [message |-> "Image uploaded successfully",
                    filename |-> r.filename,
                    size |-> r.upload.size,
                    timestamp |-> r.query_timestamp,
                    prediction |-> upload_prediction])

predict_wildfire_backend(r) ==
    IF ~r.has_image THEN RequestValidationError("image")
    ELSE IF read(r) # None THEN except_Exception(Val(read(r)))
    ELSE Json(200, predict_body)

get_infrastructure_recommendations_backend(r) ==
    IF r.wildfire_data = None THEN RequestValidationError("wildfire_data")
    ELSE Json(200, recommendations_body)

\* The Flask variant in the file's closing docstring.
get_status_flask(r) ==
    Json(200, [status |-> "operational", active_wildfires |-> 0,
               risk_level |-> "low"])

upload_image_flask(r) ==
    IF ~r.has_image THEN Json(400, [error |-> "No image file"])
    ELSE Json(200, [message |-> "Image uploaded successfully",
                    filename |-> r.filename,
                    timestamp |-> r.form_timestamp])

-----------------------------------------------------------------------------
(* backend_map_endpoints_example.py *)

\* class WildfireLocation(BaseModel): the optional fields default to None.
WildfireLocation(w) ==
    [id |-> w.id, lat |-> w.lat, lng |-> w.lng, intensity |-> w.intensity,
     status |-> w.status, confidence |-> w.confidence,
     area |-> IF "area" \in DOMAIN w THEN Some(w.area) ELSE None,
     detected_at |-> w.detected_at,
     affected_infrastructure |->
        IF "affected_infrastructure" \in DOMAIN w
        THEN Some(w.affected_infrastructure) ELSE None]

\* response_model_exclude_unset=True: the returned dict as it is.
WildfireResponse_exclude_unset(d) == d

\* response_model=WildfireResponse: FastAPI validates the returned dict
\* against the model and serialises every field of it, unset ones as null.
WildfireResponse(d) ==
    [wildfires |-> [i \in DOMAIN d.wildfires |-> WildfireLocation(d.wildfires[i])],
     total |-> d.total,
     radius_km |-> IF "radius_km" \in DOMAIN d THEN Some(d.radius_km) ELSE None,
     center_lat |-> IF "center_lat" \in DOMAIN d THEN Some(d.center_lat) ELSE None,
     center_lng |-> IF "center_lng" \in DOMAIN d THEN Some(d.center_lng) ELSE None]

\* The example data of the nearby endpoint: two entries at fixed offsets
\* from the queried point, whatever the radius.
nearby_wildfires(lat, lng) ==
    <<[id |-> 1, lat |-> lat + 5, lng |-> lng + 5, intensity |-> "high",
       status |-> "active", confidence |-> 85, area |-> "North Region",
       detected_at |-> "2024-01-01T12:00:00Z",
       affected_infrastructure |-> <<"power_lines", "water_supply">>],
      [id |-> 2, lat |-> lat - 3, lng |-> lng + 8, intensity |-> "medium",
       status |-> "active", confidence |-> 72, area |-> "East Region",
       detected_at |-> "2024-01-01T11:30:00Z",
       affected_infrastructure |-> <<"transportation">>]>>

\* A nearby endpoint that keeps the entries within the radius, a hundredth
\* of a degree taken as one kilometre.
get_wildfires_nearby_map_filtered(r) ==
    IF r.lat = None THEN RequestValidationError("lat")
    ELSE IF r.lng = None THEN RequestValidationError("lng")
    ELSE LET near(w) == (w.lat - Val(r.lat)) * (w.lat - Val(r.lat))
                          + (w.lng - Val(r.lng)) * (w.lng - Val(r.lng))
                        <= radius_param(r) * radius_param(r)
             wildfires == SelectSeq(nearby_wildfires(Val(r.lat), Val(r.lng)), near)
         IN  Json(200, WildfireResponse(
                [wildfires |-> wildfires, total |-> Len(wildfires),
                 radius_km |-> radius_param(r),
                 center_lat |-> Val(r.lat), center_lng |-> Val(r.lng)]))

get_wildfires_nearby_map(r) ==
    IF r.lat = None THEN RequestValidationError("lat")
    ELSE IF r.lng = None THEN RequestValidationError("lng")
    ELSE LET wildfires == nearby_wildfires(Val(r.lat), Val(r.lng)) IN
         Json(200, WildfireResponse(
            [wildfires |-> wildfires, total |-> Len(wildfires),
             radius_km |-> radius_param(r),
             center_lat |-> Val(r.lat), center_lng |-> Val(r.lng)]))

active_wildfires ==
    <<[id |-> 1, lat |-> 3777, lng |-> -12242, intensity |-> "high",
       status |-> "active", confidence |-> 85,
       area |-> "San Francisco Bay Area",
       detected_at |-> "2024-01-01T12:00:00Z"]>>

\* An active endpoint whose total is written out instead of counted.
get_all_active_wildfires_map_literal_total(r) ==
    Json(200, WildfireResponse(
        [wildfires |-> active_wildfires, total |-> 0]))

get_all_active_wildfires_map(r) ==
    Json(200, WildfireResponse(
        [wildfires |-> active_wildfires, total |-> Len(active_wildfires)]))

\* "location": {...} if latitude and longitude else None
upload_image_with_location(r) ==
    IF ~r.has_image THEN RequestValidationError("image")
    ELSE LET e == read_and_open(r) IN
         IF e # None THEN except_Exception(Val(e))
         ELSE Json(200,
                [message |-> "Image uploaded successfully",
                 filename |-> r.filename,
                 location |->
                    IF Truthy(r.latitude) /\ Truthy(r.longitude)
                    THEN Some([lat |-> Val(r.latitude), lng |-> Val(r.longitude)])
                    ELSE None,
                 prediction |-> [risk_level |-> "medium", confidence |-> 75]])

-----------------------------------------------------------------------------
(* integration_examples.py *)

\* np.array(image) and the torchvision transform load the pixel data, which
\* raises on a file whose data is broken.
load_pixels(r) ==
    IF r.upload.format = "corrupt" THEN Some(VerifyError) ELSE None

\* The statements of Examples 1 to 4 up to and including the model call: the
\* exception raised, if any.
read_open_predict(r) ==
    IF read_and_open(r) # None THEN read_and_open(r)
    ELSE IF load_pixels(r) # None THEN load_pixels(r)
    ELSE r.model_out.error

\* An argmax that returns the last index of a maximal element.
argmax_last(prediction) ==
    CHOOSE i \in DOMAIN prediction :
        /\ \A j \in DOMAIN prediction : prediction[j] <= prediction[i]
        /\ \A j \in DOMAIN prediction : j > i => prediction[j] < prediction[i]

\* np.argmax: the first index of a maximal element (indices from 1 here).
argmax(prediction) ==
    CHOOSE i \in DOMAIN prediction :
        /\ \A j \in DOMAIN prediction : prediction[j] <= prediction[i]
        /\ \A j \in DOMAIN prediction : j < i => prediction[j] < prediction[i]

\* A label list with a label outside the vocabulary.
risk_levels_renamed == <<"low", "moderate", "high">>

risk_levels == <<"low", "medium", "high">>

\* Example 1: TensorFlow/Keras
predict_wildfire_ex1(r) ==
    IF ~r.has_image THEN RequestValidationError("image")
    ELSE LET e == read_open_predict(r) IN
         IF e # None THEN Uncaught(Val(e))
         ELSE LET prediction == r.model_out.value
                  risk_index == argmax(prediction)
              IN  Json(200, [risk_level |-> risk_levels[risk_index],
                             confidence |-> prediction[risk_index],
                             all_scores |-> [low |-> prediction[1],
                                             medium |-> prediction[2],
                                             high |-> prediction[3]]])

\* Example 2: PyTorch.  model_out.value stands for softmax(output[0]).
predict_wildfire_ex2(r) ==
    IF ~r.has_image THEN RequestValidationError("image")
    ELSE LET e == read_open_predict(r) IN
         IF e # None THEN Uncaught(Val(e))
         ELSE LET probabilities == r.model_out.value
                  risk_index == argmax(probabilities)
              IN  Json(200, [risk_level |-> risk_levels[risk_index],
                             confidence |-> probabilities[risk_index]])

\* max(probabilities)
max(probabilities) ==
    CHOOSE m \in {probabilities[i] : i \in DOMAIN probabilities} :
        \A i \in DOMAIN probabilities : probabilities[i] <= m

\* Example 3: scikit-learn
predict_wildfire_ex3(r) ==
    IF ~r.has_image THEN RequestValidationError("image")
    ELSE LET e == read_open_predict(r) IN
         IF e # None THEN Uncaught(Val(e))
         ELSE LET prediction == r.model_out.value.label
                  probabilities == r.model_out.value.proba
              IN  Json(200, [risk_level |-> IF prediction = 1 THEN "high" ELSE "low",
                             confidence |-> max(probabilities)])

\* Example 4: the pipeline returns its three stage results, or a stage raises.
PipelineOutputs ==
    {Returns([detection |-> "fire", risk_assessment |-> "high",
              infrastructure_impact |-> "power_lines"]),
     Returns([detection |-> "none", risk_assessment |-> "low",
              infrastructure_impact |-> "none"]),
     Raises("model failed")}

predict_wildfire_ex4(r) ==
    IF ~r.has_image THEN RequestValidationError("image")
    ELSE LET e == read_and_open(r) IN
         IF e # None THEN Uncaught(Val(e))
         ELSE IF r.model_out.error # None THEN Uncaught(Val(r.model_out.error))
         ELSE Json(200, r.model_out.value)

\* Example 5: the body ends in `pass`, so the handler returns None.
predict_wildfire_ex5(r) ==
    IF ~r.has_image THEN RequestValidationError("image")
    ELSE LET e == read_and_open(r) IN
         IF e # None THEN Uncaught(Val(e))
         ELSE Json(200, None)

\* Example 6: timestamp is declared without Form(): a query parameter.
upload_image_ex6(r) ==
    IF ~r.has_image THEN RequestValidationError("image")
    ELSE LET e == read_and_open(r) IN
         IF e # None THEN Uncaught(Val(e))
         ELSE Json(200, [message |-> "Image uploaded successfully",
                         filename |-> r.filename,
                         size |-> r.upload.size,
                         timestamp |-> r.query_timestamp,
                         prediction |->
                            [risk_level |-> "medium", confidence |-> 75,
                             recommendations |-> <<"Monitor area for 24 hours",
                                                   "Prepare evacuation routes">>]])

\* A size check that also refuses the smallest accepted image.
too_small_off_by_one(r) == r.upload.width <= MinDim \/ r.upload.height <= MinDim

\* if img.size[0] < 100 or img.size[1] < 100
too_small(r) == r.upload.width < MinDim \/ r.upload.height < MinDim

\* A body that reads first and checks the size before it decodes.
try_body_ex7_reordered(r) ==
    IF read(r) # None THEN Uncaught(Val(read(r)))
    ELSE IF r.upload.size = 0 THEN HTTPException(400, "Empty image file")
    ELSE IF r.filename = "" THEN HTTPException(400, "No filename provided")
    ELSE IF too_small(r) THEN HTTPException(400, "Image too small")
    ELSE IF Image_open(r) # None
         THEN Handled(Val(Image_open(r)), 400, "Invalid image format")
    ELSE IF r.upload.format = "corrupt"
         THEN Handled(VerifyError, 400, "Invalid image format")
    ELSE IF r.model_out.error # None
         THEN Handled(Val(r.model_out.error), 500,
                      "ML model error: " \o Val(r.model_out.error))
    ELSE Json(200, r.model_out.value)

\* Example 7, the body of the outer try: what it returns or raises.  An
\* HTTPException and a returned value are shown as the response they become;
\* any other exception is shown as a response of medium "text".
try_body_ex7(r) ==
    IF r.filename = "" THEN HTTPException(400, "No filename provided")
    ELSE IF read(r) # None THEN Uncaught(Val(read(r)))
    ELSE IF r.upload.size = 0 THEN HTTPException(400, "Empty image file")
    ELSE IF Image_open(r) # None
         THEN Handled(Val(Image_open(r)), 400, "Invalid image format")
    ELSE IF r.upload.format = "corrupt"
         THEN Handled(VerifyError, 400, "Invalid image format")
    ELSE IF too_small(r) THEN HTTPException(400, "Image too small")
    ELSE IF r.model_out.error # None
         THEN Handled(Val(r.model_out.error), 500,
                      "ML model error: " \o Val(r.model_out.error))
    ELSE Json(200, r.model_out.value)

\* An outer handler with the one clause `except Exception as e`, which also
\* catches the HTTPExceptions raised in the body.
outer_except_ex7_catch_all(x) ==
    IF x.media = "text"
    THEN Handled(Val(x.exc), 500, "Server error: " \o Val(x.exc))
    ELSE IF x.status >= 400
    THEN Handled(x.body.detail, 500, "Server error: " \o x.body.detail)
    ELSE x

\* except HTTPException: raise
\* except Exception as e: raise HTTPException(500, f"Server error: {str(e)}")
outer_except_ex7(x) ==
    IF x.media = "text"
    THEN Handled(Val(x.exc), 500, "Server error: " \o Val(x.exc))
    ELSE x

\* Example 7: error handling best practices
predict_wildfire_ex7(r) ==
    IF ~r.has_image THEN RequestValidationError("image")
    ELSE outer_except_ex7(try_body_ex7(r))

\* Example 8: load_model() under lru_cache(maxsize=1): the body runs on a
\* miss and its result is kept; a hit returns the kept object.
load_model_uncached(cache) ==
    IF cache = None THEN Some("model") ELSE Some("model, loaded again")

load_model(cache) == IF cache = None THEN Some("model") ELSE cache

predict_wildfire_ex8(r) ==
    IF ~r.has_image THEN RequestValidationError("image")
    ELSE LET e == read_and_open(r) IN
         IF e # None THEN Uncaught(Val(e))
         ELSE IF r.model_out.error # None THEN Uncaught(Val(r.model_out.error))
         ELSE Json(200, r.model_out.value)

\* Example 9: Flask
predict_wildfire_ex9(r) ==
    IF ~r.has_image THEN Json(400, [error |-> "No image file"])
    ELSE LET e == read_and_open(r) IN
         IF e # None THEN UncaughtFlask(Val(e))
         ELSE Json(200, [risk_level |-> "high", confidence |-> 85])

-----------------------------------------------------------------------------
(* database_example.py: the usage example in the closing docstring *)

\* datetime.now().strftime('%Y%m%d_%H%M%S'): the second of the upload.
Seconds == {"20240501_100000", "20240501_100001"}

\* Evaluating the name `longitude` in upload_image: the function has no such
\* parameter and the module no such global, so the lookup raises NameError.
longitude_lookup(r) == [error |-> Some("name 'longitude' is not defined"),
                        value |-> None]

\* A failed commit leaves the table as it was.
CommitOutcomes == {"ok", "OperationalError"}

\* The handler, from the tables and files it finds to the response and the
\* tables and files it leaves: now is the clock, commit1 and commit2 what
\* the two db.commit() calls do.  db.close() runs on every path after
\* get_session() and changes no table.
upload_image_db(r, now, commit1, commit2, fs, images, detections) ==
    LET unchanged(x) == [resp |-> x, files |-> fs, images |-> images,
                         detections |-> detections]
        file_path == <<now, r.filename>>
        written(x) == [resp |-> x, files |-> fs \cup {file_path},
                       images |-> images, detections |-> detections]
        prediction == r.model_out.value
        longitude == longitude_lookup(r)
        db_image == [id |-> Len(images) + 1, filename |-> file_path,
                     file_size |-> r.upload.size, latitude |-> r.latitude,
                     longitude |-> longitude.value,
                     risk_level |-> prediction.risk_level,
                     confidence |-> prediction.confidence]
        detection == [id |-> Len(detections) + 1, image_id |-> db_image.id,
                      lat |-> r.latitude, lng |-> longitude.value,
                      intensity |-> prediction.risk_level,
                      confidence |-> prediction.confidence]
        saved(x, ds) == [resp |-> x, files |-> fs \cup {file_path},
                         images |-> Append(images, db_image), detections |-> ds]
    IN  IF ~r.has_image THEN unchanged(RequestValidationError("image"))
        ELSE IF read(r) # None THEN unchanged(Uncaught(Val(read(r))))
        ELSE IF Image_open(r) # None THEN written(Uncaught(Val(Image_open(r))))
        ELSE IF r.model_out.error # None
             THEN written(Uncaught(Val(r.model_out.error)))
        ELSE IF longitude.error # None THEN written(Uncaught(Val(longitude.error)))
        ELSE IF commit1 # "ok" THEN written(Uncaught(commit1))
        ELSE IF prediction.risk_level \notin {"high", "critical"}
             THEN saved(Json(200, [message |-> "Image saved", id |-> db_image.id]),
                        detections)
        ELSE IF detection.lat = None \/ detection.lng = None
             THEN saved(Uncaught("NOT NULL constraint failed"), detections)
        ELSE IF commit2 # "ok" THEN saved(Uncaught(commit2), detections)
        ELSE saved(Json(200, [message |-> "Image saved", id |-> db_image.id]),
                   Append(detections, detection))

-----------------------------------------------------------------------------
(* The exchanges *)

NoRequest  == BaseRequest("", "", "")
NoResponse == [status |-> 0, media |-> "", body |-> None, exc |-> None,
               allow_origin |-> None]

\* The response as the client receives it: the CORS middleware adds the
\* allow-origin header to what the application answers; the plain-text 500
\* of an uncaught exception is produced outside that middleware.
Respond(r, h) ==
    [status |-> h.status, media |-> h.media, body |-> h.body, exc |-> h.exc,
     allow_origin |-> IF h.media = "text" THEN None
                      ELSE allow_origin_header(r.app, r.origin)]

Servers ==
    {Template, Backend, BackendFlask, MapApp, Ex1, Ex2, Ex3, Ex4, Ex5, Ex6,
     Ex7, Ex8, Ex9, DbApp}

\* Example 8: the handlers that can be in progress at once.
MaxTasks == 2
TaskIds == 1..MaxTasks

\* The thread of the asyncio event loop, and a thread of its default executor.
EventLoopThread == "event loop"
WorkerThread    == "worker"

\* A coroutine of predict_wildfire: where it is (idle: no request; reading:
\* at `await image.read()`; predicting: model.predict is running; predicted:
\* model.predict has returned or raised), the request it handles, the model
\* object load_model() gave it, the thread model.predict runs on, what
\* model.predict produced, and whether the event loop has finished another
\* request while model.predict was running.
IdleTask ==
    [phase |-> "idle", request |-> NoRequest, model |-> None,
     thread |-> "", result |-> NoModel, overtaken |-> FALSE]

Init ==
    /\ server \in Servers
    /\ req = NoRequest
    /\ resp = NoResponse
    /\ started = FALSE
    /\ model_cache = None
    /\ files = {}
    /\ wildfire_images = <<>>
    /\ wildfire_detections = <<>>
    /\ loader = "idle"
    /\ loads = 0
    /\ tasks = [i \in TaskIds |-> IdleTask]

\* What a handler that keeps nothing leaves alone.
store == <<server, started, model_cache, files, wildfire_images,
           wildfire_detections, loader, loads, tasks>>

GetStatusTemplate ==
    /\ server = Template
    /\ \E r \in PlainRequests(Template, Status) :
        /\ req' = r
        /\ resp' = Respond(r, get_status_template(r))
    /\ UNCHANGED store

UploadImageTemplate ==
    /\ server = Template
    /\ \E r \in WithLocation(WithTimestamp(
                    ImageRequests(Template, Upload, Uploads, {NoModel}))) :
        /\ req' = r
        /\ resp' = Respond(r, upload_image_template(r))
    /\ UNCHANGED store

PredictWildfireTemplate ==
    /\ server = Template
    /\ \E r \in ImageRequests(Template, Predict, Uploads, {NoModel}) :
        /\ req' = r
        /\ resp' = Respond(r, predict_wildfire_template(r))
    /\ UNCHANGED store

GetInfrastructureRecommendationsTemplate ==
    /\ server = Template
    /\ \E r \in JsonRequests(Template, Infra) :
        /\ req' = r
        /\ resp' = Respond(r, get_infrastructure_recommendations_template(r))
    /\ UNCHANGED store

GetWildfiresNearbyTemplate ==
    /\ server = Template
    /\ \E r \in QueryRequests(Template, Nearby) :
        /\ req' = r
        /\ resp' = Respond(r, get_wildfires_nearby_template(r))
    /\ UNCHANGED store

GetAllActiveWildfiresTemplate ==
    /\ server = Template
    /\ \E r \in PlainRequests(Template, Active) :
        /\ req' = r
        /\ resp' = Respond(r, get_all_active_wildfires_template(r))
    /\ UNCHANGED store

GetStatusBackend ==
    /\ server = Backend
    /\ \E r \in PlainRequests(Backend, Status) :
        /\ req' = r
        /\ resp' = Respond(r, get_status_backend(r))
    /\ UNCHANGED store

UploadImageBackend ==
    /\ server = Backend
    /\ \E r \in WithTimestamp(ImageRequests(Backend, Upload, Uploads, {NoModel})) :
        /\ req' = r
        /\ resp' = Respond(r, upload_image_backend(r))
    /\ UNCHANGED store

PredictWildfireBackend ==
    /\ server = Backend
    /\ \E r \in ImageRequests(Backend, Predict, Uploads, {NoModel}) :
        /\ req' = r
        /\ resp' = Respond(r, predict_wildfire_backend(r))
    /\ UNCHANGED store

GetInfrastructureRecommendationsBackend ==
    /\ server = Backend
    /\ \E r \in JsonRequests(Backend, Infra) :
        /\ req' = r
        /\ resp' = Respond(r, get_infrastructure_recommendations_backend(r))
    /\ UNCHANGED store

GetStatusFlask ==
    /\ server = BackendFlask
    /\ \E r \in PlainRequests(BackendFlask, Status) :
        /\ req' = r
        /\ resp' = Respond(r, get_status_flask(r))
    /\ UNCHANGED store

UploadImageFlask ==
    /\ server = BackendFlask
    /\ \E r \in WithTimestamp(ImageRequests(BackendFlask, Upload, Uploads, {NoModel})) :
        /\ req' = r
        /\ resp' = Respond(r, upload_image_flask(r))
    /\ UNCHANGED store

GetWildfiresNearbyMap ==
    /\ server = MapApp
    /\ \E r \in QueryRequests(MapApp, Nearby) :
        /\ req' = r
        /\ resp' = Respond(r, get_wildfires_nearby_map(r))
    /\ UNCHANGED store

GetAllActiveWildfiresMap ==
    /\ server = MapApp
    /\ \E r \in PlainRequests(MapApp, Active) :
        /\ req' = r
        /\ resp' = Respond(r, get_all_active_wildfires_map(r))
    /\ UNCHANGED store

UploadImageWithLocation ==
    /\ server = MapApp
    /\ \E r \in WithLocation(ImageRequests(MapApp, Upload, Uploads, {NoModel})) :
        /\ req' = r
        /\ resp' = Respond(r, upload_image_with_location(r))
    /\ UNCHANGED store

PredictWildfireEx1 ==
    /\ server = Ex1
    /\ \E r \in ImageRequests(Ex1, Predict, Uploads, ScoreOutputs) :
        /\ req' = r
        /\ resp' = Respond(r, predict_wildfire_ex1(r))
    /\ UNCHANGED store

PredictWildfireEx2 ==
    /\ server = Ex2
    /\ \E r \in ImageRequests(Ex2, Predict, Uploads, ScoreOutputs) :
        /\ req' = r
        /\ resp' = Respond(r, predict_wildfire_ex2(r))
    /\ UNCHANGED store

PredictWildfireEx3 ==
    /\ server = Ex3
    /\ \E r \in ImageRequests(Ex3, Predict, Uploads, ClassifierOutputs) :
        /\ req' = r
        /\ resp' = Respond(r, predict_wildfire_ex3(r))
    /\ UNCHANGED store

PredictWildfireEx4 ==
    /\ server = Ex4
    /\ \E r \in ImageRequests(Ex4, Predict, Uploads, PipelineOutputs) :
        /\ req' = r
        /\ resp' = Respond(r, predict_wildfire_ex4(r))
    /\ UNCHANGED store

PredictWildfireEx5 ==
    /\ server = Ex5
    /\ \E r \in ImageRequests(Ex5, Predict, Uploads, {NoModel}) :
        /\ req' = r
        /\ resp' = Respond(r, predict_wildfire_ex5(r))
    /\ UNCHANGED store

UploadImageEx6 ==
    /\ server = Ex6
    /\ \E r \in WithTimestamp(ImageRequests(Ex6, Upload, Uploads, {NoModel})) :
        /\ req' = r
        /\ resp' = Respond(r, upload_image_ex6(r))
    /\ UNCHANGED store

PredictWildfireEx7 ==
    /\ server = Ex7
    /\ \E r \in ImageRequests(Ex7, Predict, AllUploads, PredictionOutputs) :
        /\ req' = r
        /\ resp' = Respond(r, predict_wildfire_ex7(r))
    /\ UNCHANGED store

PredictWildfireEx9 ==
    /\ server = Ex9
    /\ \E r \in ImageRequests(Ex9, Predict, Uploads, {NoModel}) :
        /\ req' = r
        /\ resp' = Respond(r, predict_wildfire_ex9(r))
    /\ UNCHANGED store

\* Example 8: the startup event loads the model before any request is served.
StartupEvent ==
    /\ server = Ex8
    /\ ~started
    /\ started' = TRUE
    /\ model_cache' = load_model(model_cache)
    /\ UNCHANGED <<server, req, resp, files, wildfire_images, wildfire_detections,
                   loader, loads, tasks>>

PredictWildfireEx8 ==
    /\ server = Ex8
    /\ started
    /\ \E r \in ImageRequests(Ex8, Predict, Uploads, PredictionOutputs) :
        /\ req' = r
        /\ resp' = Respond(r, predict_wildfire_ex8(r))
        /\ model_cache' = IF r.has_image THEN load_model(model_cache)
                          ELSE model_cache
    /\ UNCHANGED <<server, started, files, wildfire_images, wildfire_detections,
                   loader, loads, tasks>>

\* The handler declares image and latitude only.  The example installs no
\* CORS middleware, so one origin stands for all.
DbRequests ==
    {[r EXCEPT !.latitude = a] :
        r \in {q \in ImageRequests(DbApp, Upload, {ReadFails, Garbage, Picture},
                                   PredictionOutputs) : q.origin = Localhost},
        a \in {None, Some(3777)}}

UploadImageDb ==
    /\ server = DbApp
    /\ \E r \in DbRequests, now \in Seconds,
          commit1 \in CommitOutcomes, commit2 \in CommitOutcomes :
        LET out == upload_image_db(r, now, commit1, commit2, files,
                                   wildfire_images, wildfire_detections)
        IN  /\ req' = r
            /\ resp' = Respond(r, out.resp)
            /\ files' = out.files
            /\ wildfire_images' = out.images
            /\ wildfire_detections' = out.detections
            /\ UNCHANGED <<server, started, model_cache, loader, loads, tasks>>

Stateless ==
    \/ GetStatusTemplate \/ UploadImageTemplate \/ PredictWildfireTemplate
    \/ GetInfrastructureRecommendationsTemplate
    \/ GetWildfiresNearbyTemplate \/ GetAllActiveWildfiresTemplate
    \/ GetStatusBackend \/ UploadImageBackend \/ PredictWildfireBackend
    \/ GetInfrastructureRecommendationsBackend
    \/ GetStatusFlask \/ UploadImageFlask
    \/ GetWildfiresNearbyMap \/ GetAllActiveWildfiresMap
    \/ UploadImageWithLocation
    \/ PredictWildfireEx1 \/ PredictWildfireEx2 \/ PredictWildfireEx3
    \/ PredictWildfireEx4 \/ PredictWildfireEx5 \/ UploadImageEx6
    \/ PredictWildfireEx7 \/ PredictWildfireEx9

Next == Stateless \/ StartupEvent \/ PredictWildfireEx8 \/ UploadImageDb

Spec == Init /\ [][Next]_vars

-----------------------------------------------------------------------------
(* Example 8, one step per stretch of code between two awaits.  The event  *)
(* loop runs one coroutine at a time; asyncio.to_thread runs a function on *)
(* a thread of the executor while the loop goes on with other coroutines.  *)

\* The requests sent to Example 8 while others are in progress.
Ex8Requests ==
    {r \in ImageRequests(Ex8, Predict, {Garbage, Picture}, PredictionOutputs) :
        r.origin = Localhost /\ (r.has_image => r.filename = "fire.jpg")}

\* A function called directly runs on the thread of its caller.
call_inline(caller) == caller

\* asyncio.to_thread(func, ...): the thread func runs on.
to_thread(caller) == WorkerThread

\* The event loop can run a coroutine: it is not inside a function call.
LoopFree ==
    \A i \in TaskIds :
        ~(tasks[i].phase = "predicting" /\ tasks[i].thread = EventLoopThread)

\* The body of load_model runs when the call leaves a new object in the cache.
body_runs(cache) == IF load_model(cache) # cache THEN 1 ELSE 0

\* A request has been answered while model.predict ran for these tasks.
Overtake(ts) ==
    [i \in TaskIds |->
        IF ts[i].phase = "predicting" THEN [ts[i] EXCEPT !.overtaken = TRUE]
        ELSE ts[i]]

ex8_frame == <<server, files, wildfire_images, wildfire_detections>>

\* startup_event up to its await: load_model is handed to a worker thread.
StartupDispatch ==
    /\ server = Ex8
    /\ ~started
    /\ loader = "idle"
    /\ loader' = to_thread(EventLoopThread)
    /\ UNCHANGED <<req, resp, started, model_cache, loads, tasks>>
    /\ UNCHANGED ex8_frame

\* load_model() runs on the thread it was handed to.
LoadModelInThread ==
    /\ server = Ex8
    /\ loader \in {WorkerThread, EventLoopThread}
    /\ model_cache' = load_model(model_cache)
    /\ loads' = loads + body_runs(model_cache)
    /\ loader' = "returned"
    /\ UNCHANGED <<req, resp, started, tasks>>
    /\ UNCHANGED ex8_frame

\* startup_event resumes and returns; the server starts to accept requests.
StartupComplete ==
    /\ server = Ex8
    /\ ~started
    /\ loader = "returned"
    /\ started' = TRUE
    /\ UNCHANGED <<req, resp, model_cache, loader, loads, tasks>>
    /\ UNCHANGED ex8_frame

\* A request arrives.  Without an image part it is refused before the handler
\* runs; otherwise the handler runs up to `await image.read()`.
AcceptRequest ==
    /\ server = Ex8
    /\ started
    /\ LoopFree
    /\ \E i \in TaskIds, r \in Ex8Requests :
        /\ tasks[i].phase = "idle"
        /\ IF ~r.has_image
           THEN /\ req' = r
                /\ resp' = Respond(r, RequestValidationError("image"))
                /\ tasks' = Overtake(tasks)
                /\ UNCHANGED <<model_cache, loads>>
           ELSE /\ model_cache' = load_model(model_cache)
                /\ loads' = loads + body_runs(model_cache)
                /\ tasks' = [tasks EXCEPT ![i] =
                        [phase |-> "reading", request |-> r,
                         model |-> load_model(model_cache),
                         thread |-> "", result |-> NoModel,
                         overtaken |-> FALSE]]
                /\ UNCHANGED <<req, resp>>
    /\ UNCHANGED <<started, loader>>
    /\ UNCHANGED ex8_frame

\* The handler resumes with the contents, opens the image and hands
\* model.predict to a thread, or fails.
ReadAndDispatch ==
    /\ server = Ex8
    /\ LoopFree
    /\ \E i \in TaskIds :
        /\ tasks[i].phase = "reading"
        /\ LET r == tasks[i].request
               e == read_and_open(r)
           IN  IF e # None
               THEN /\ req' = r
                    /\ resp' = Respond(r, Uncaught(Val(e)))
                    /\ tasks' = [Overtake(tasks) EXCEPT ![i] = IdleTask]
               ELSE /\ tasks' = [tasks EXCEPT
                            ![i].phase = "predicting",
                            ![i].thread = to_thread(EventLoopThread)]
                    /\ UNCHANGED <<req, resp>>
    /\ UNCHANGED <<started, model_cache, loader, loads>>
    /\ UNCHANGED ex8_frame

\* model.predict(image_pil) returns or raises, on the thread it was given.
ModelPredict ==
    /\ server = Ex8
    /\ \E i \in TaskIds :
        /\ tasks[i].phase = "predicting"
        /\ tasks' = [tasks EXCEPT ![i].phase = "predicted",
                                  ![i].result = tasks[i].request.model_out]
    /\ UNCHANGED <<req, resp, started, model_cache, loader, loads>>
    /\ UNCHANGED ex8_frame

\* The handler resumes with the prediction and returns it, or the exception
\* of model.predict leaves the handler.
ReturnPrediction ==
    /\ server = Ex8
    /\ LoopFree
    /\ \E i \in TaskIds :
        /\ tasks[i].phase = "predicted"
        /\ LET r == tasks[i].request
               prediction == tasks[i].result
           IN  /\ req' = r
               /\ resp' = Respond(r, IF prediction.error # None
                                     THEN Uncaught(Val(prediction.error))
                                     ELSE Json(200, prediction.value))
        /\ tasks' = [Overtake(tasks) EXCEPT ![i] = IdleTask]
    /\ UNCHANGED <<started, model_cache, loader, loads>>
    /\ UNCHANGED ex8_frame

InitEx8 == Init /\ server = Ex8

NextEx8 ==
    \/ StartupDispatch \/ LoadModelInThread \/ StartupComplete
    \/ AcceptRequest \/ ReadAndDispatch \/ ModelPredict \/ ReturnPrediction

SpecEx8 == InitEx8 /\ [][NextEx8]_vars

-----------------------------------------------------------------------------
(* Properties *)

\* An exchange has taken place.
Answered == req.app # ""

IsJson == resp.media = "json"

\* The response is an HTTPException with this status and this detail.
IsHTTPException(status_code, detail) ==
    /\ IsJson
    /\ resp.status = status_code
    /\ resp.body = [detail |-> detail]

\* The servers whose handlers end in `except Exception as e: raise
\* HTTPException(status_code=500, detail=str(e))`.
CatchAllServers == {Template, Backend, MapApp}

\* The FastAPI examples without any except clause, and the database example.
NoCatchServers == {Ex1, Ex2, Ex3, Ex4, Ex5, Ex6, Ex8, DbApp}

\* C1 as stated: in every handler of every server, an exception raised while
\* reading the upload, decoding it or calling the model becomes an HTTP error
\* response whose detail is exactly str(e).
C1_AsStated ==
    resp.exc # None =>
        /\ IsJson
        /\ resp.status >= 400
        /\ resp.body = [detail |-> Val(resp.exc)]

\* C1 amended: in the template, the backend example and the map endpoints an
\* exception raised while reading or decoding the upload becomes a 500 whose
\* detail is exactly str(e).  Example 7 answers 400 "Invalid image format" to
\* a decoding error and 500 with str(e) prefixed by "Server error: " or "ML
\* model error: " otherwise.  In the other integration examples and in the
\* database example the exception leaves the handler and the framework
\* answers with its own 500, which carries no detail.
C1_ExceptionToResponse ==
    resp.exc # None =>
        CASE server \in CatchAllServers ->
                IsHTTPException(500, Val(resp.exc))
          [] server = Ex7 ->
                \/ IsHTTPException(400, "Invalid image format")
                \/ IsHTTPException(500, "Server error: " \o Val(resp.exc))
                \/ IsHTTPException(500, "ML model error: " \o Val(resp.exc))
          [] OTHER ->
                /\ server \in NoCatchServers \cup {Ex9}
                /\ ~IsJson
                /\ resp.status = 500

\* A decoding error caught by the template's upload handler.
C1_Witness ==
    /\ server = Template
    /\ req.route = Upload
    /\ req.upload = Garbage
    /\ resp.exc = Some(UnidentifiedImageError)
    /\ resp.status = 500

\* The uploaded bytes were read and are no image.
Undecodable ==
    /\ req.has_image
    /\ req.upload.read_error = None
    /\ req.upload.format = "unidentified"

UploadRoutes == {Upload, Predict}

\* C2 as stated: every upload endpoint of every server answers undecodable
\* bytes with 500 and a non-empty detail.
C2_AsStated ==
    (req.route \in UploadRoutes /\ Undecodable) =>
        /\ resp.status = 500
        /\ IsJson
        /\ DOMAIN resp.body = {"detail"}
        /\ resp.body.detail # ""

\* C2 amended: the upload endpoints of the template and of the map endpoints
\* answer undecodable bytes with 500 and a non-empty detail.  The backend
\* example (FastAPI and Flask) never decodes the upload and answers 200.
\* Example 7 answers 400.  The other integration examples and the database
\* example answer with the framework's 500, which carries no detail.
C2_UndecodableUpload ==
    (req.route \in UploadRoutes /\ Undecodable) =>
        CASE server \in {Template, MapApp} ->
                /\ IsHTTPException(500, UnidentifiedImageError)
                /\ resp.body.detail # ""
          [] server \in {Backend, BackendFlask} -> resp.status = 200
          [] server = Ex7 ->
                /\ IsJson
                /\ resp.status = 400
                /\ resp.body.detail \in {"No filename provided",
                                         "Empty image file",
                                         "Invalid image format"}
          [] OTHER ->
                /\ server \in NoCatchServers \cup {Ex9}
                /\ resp.status = 500
                /\ ~IsJson

\* Undecodable bytes at the template's predict endpoint.
C2_Witness ==
    /\ server = Template
    /\ req.route = Predict
    /\ Undecodable
    /\ resp.status = 500

-----------------------------------------------------------------------------

Ok == resp.status = 200 /\ IsJson

\* The top-level keys of a JSON value; null has none.
Keys(body) == DOMAIN body

UploadKeys == {"message", "filename", "size", "timestamp", "prediction"}

\* The interface table: the sets of top-level keys documented for a route.
DocumentedKeys(route) ==
    CASE route = Status ->
            {{"status", "active_wildfires", "risk_level", "last_update"}}
      [] route = Upload -> {UploadKeys, UploadKeys \cup {"location"}}
      [] route = Predict ->
            {{"risk_level", "confidence", "affected_areas", "recommendations"}}
      [] route = Infra -> {{"recommendations", "evacuation_routes"}}
      [] route = Nearby ->
            {{"wildfires", "total", "radius_km", "center_lat", "center_lng"}}
      [] route = Active -> {{"wildfires", "total"}}
      [] OTHER -> {}

\* C3 as stated: the top-level keys of every successful response are exactly
\* the keys documented for its route, in every server.
C3_AsStated == Ok => Keys(resp.body) \in DocumentedKeys(req.route)

\* The one key set of a route that documents one.
Documented(route) == CHOOSE ks \in DocumentedKeys(route) : TRUE

\* C3 amended: the top-level keys of every successful response are
\*  - template and backend example (FastAPI): the documented keys for status,
\*    upload-image, predict and recommendations; location only in the
\*    template and only when latitude and longitude are both non-zero;
\*  - template: nearby has wildfires, total, radius_km; active has wildfires,
\*    total;
\*  - map endpoints: nearby and active both have wildfires, total, radius_km,
\*    center_lat, center_lng; upload-image has message, filename, location,
\*    prediction;
\*  - Flask variant of the backend example: status lacks last_update;
\*    upload-image has message, filename, timestamp;
\*  - Example 1: risk_level, confidence, all_scores; Examples 2, 3, 9:
\*    risk_level, confidence; Example 6: the documented upload keys without
\*    location; Examples 4, 7, 8: the keys of the model's output; Example 5
\*    answers null; database example: message, id.
C3_ResponseKeys ==
    Ok => Keys(resp.body) =
        CASE server \in {Template, Backend} /\ req.route \in {Status, Predict, Infra} ->
                Documented(req.route)
          [] server = Template /\ req.route = Upload ->
                IF Truthy(req.latitude) /\ Truthy(req.longitude)
                THEN UploadKeys \cup {"location"} ELSE UploadKeys
          [] server \in {Backend, Ex6} /\ req.route = Upload -> UploadKeys
          [] server = Template /\ req.route = Nearby ->
                {"wildfires", "total", "radius_km"}
          [] server = Template /\ req.route = Active -> Documented(Active)
          [] server = MapApp /\ req.route \in {Nearby, Active} ->
                Documented(Nearby)
          [] server = MapApp /\ req.route = Upload ->
                {"message", "filename", "location", "prediction"}
          [] server = BackendFlask /\ req.route = Status ->
                {"status", "active_wildfires", "risk_level"}
          [] server = BackendFlask /\ req.route = Upload ->
                {"message", "filename", "timestamp"}
          [] server = Ex1 -> {"risk_level", "confidence", "all_scores"}
          [] server \in {Ex2, Ex3, Ex9} -> {"risk_level", "confidence"}
          [] server \in {Ex4, Ex7, Ex8} -> Keys(req.model_out.value)
          [] server = Ex5 -> {}
          [] server = DbApp -> {"message", "id"}

\* The active-wildfires endpoint of the map endpoints answered.
C3_Witness ==
    /\ server = MapApp
    /\ req.route = Active
    /\ Ok
    /\ resp.body.total = 1

\* Well-formed input: a decodable image with a filename for the upload
\* endpoints, a JSON object for the recommendations endpoint, numeric lat and
\* lng for the nearby endpoint.
WellFormed ==
    /\ Answered
    /\ req.route \in UploadRoutes =>
            /\ req.has_image
            /\ req.filename # ""
            /\ req.upload.read_error = None
            /\ req.upload.format = "image"
    /\ req.route = Infra => req.wildfire_data # None
    /\ req.route = Nearby => req.lat # None /\ req.lng # None

BigEnough == req.upload.width >= MinDim /\ req.upload.height >= MinDim

C5_AsStated ==
    resp.status >= 400 =>
        /\ IsJson
        /\ Keys(resp.body) = {"detail"}

AllowedOrigins == {Localhost, Loopback}

\* C6 as stated: in every server a request from one of the two local
\* development origins receives the allow-origin header naming it, and a
\* request from any other origin receives none.
C6_AsStated ==
    Answered =>
        resp.allow_origin = IF req.origin \in AllowedOrigins
                            THEN Some(req.origin) ELSE None

-----------------------------------------------------------------------------

\* Two successive successful exchanges at the same route.
SameRouteTwice ==
    /\ req'.route = req.route
    /\ resp.status = 200
    /\ resp'.status = 200

\* C7 as stated: two successful requests to the same endpoint of the same
\* server are answered with identical bodies, whatever their uploaded file,
\* form fields or query parameters.
C7_AsStated == [][SameRouteTwice => resp'.body = resp.body]_vars

\* The handlers that return a literal.
Static ==
    \/ req.route \in {Status, Infra, Active}
    \/ req.route = Predict /\ server \in {Template, Backend, Ex5, Ex9}

\* C7 amended: the status, recommendations and active-wildfires handlers, and
\* the predict handlers of the template, of the backend example and of
\* Examples 5 and 9, answer all successful requests with one and the same
\* body.  The upload-image handlers echo the request (filename, size,
\* timestamp, location), the nearby handlers echo the query (radius, and in
\* the map endpoints lat and lng), and the predict handlers of Examples 1 to
\* 4, 7 and 8 return what the model returns.
C7_StaticBody == [][(SameRouteTwice /\ Static) => resp'.body = resp.body]_vars

\* The template's predict handler answered for a file other than Picture.
C7_Witness ==
    /\ server = Template
    /\ req.route = Predict
    /\ req.upload = Corrupt
    /\ Ok

\* What a server keeps between requests.
ServerState == <<model_cache, files, wildfire_images, wildfire_detections>>

\* A step that handles a request: every step but the startup event.
RequestStep == started' = started

\* The same request again is answered alike.
SameAnswer == req' = req => resp' = resp

LocatedUpload ==
    /\ server \in {Template, MapApp}
    /\ req.route = Upload
    /\ Ok

\* The location the response reports, <<>> when it reports none.
ReportedLocation ==
    IF "location" \notin Keys(resp.body) THEN None
    ELSE IF server = MapApp THEN resp.body.location
    ELSE Some(resp.body.location)

\* C9 as stated: when the request supplies latitude and longitude, zero
\* included, the response carries them as location; when either is missing
\* it reports no location.
C9_AsStated ==
    LocatedUpload =>
        ReportedLocation =
            IF req.latitude # None /\ req.longitude # None
            THEN Some([lat |-> Val(req.latitude), lng |-> Val(req.longitude)])
            ELSE None

NearbyOk == req.route = Nearby /\ Ok

\* The radius the nearby endpoint works with.
RequestedRadius == IF req.radius = None THEN 50 ELSE Val(req.radius)

\* The two entries are placed at (lat+0.05, lng+0.05) and (lat-0.03, lng+0.08).
TwoFabricatedEntries ==
    /\ Len(resp.body.wildfires) = 2
    /\ resp.body.wildfires[1].lat = Val(req.lat) + 5
    /\ resp.body.wildfires[1].lng = Val(req.lng) + 5
    /\ resp.body.wildfires[2].lat = Val(req.lat) - 3
    /\ resp.body.wildfires[2].lng = Val(req.lng) + 8

\* C10 as stated: the nearby endpoint returns the same two entries at fixed
\* offsets for every lat, lng and radius, with radius_km the requested radius
\* (50 when omitted) and center_lat, center_lng the requested point.
C10_AsStated ==
    NearbyOk =>
        /\ TwoFabricatedEntries
        /\ Keys(resp.body) = Documented(Nearby)
        /\ resp.body.radius_km = Some(RequestedRadius)
        /\ resp.body.center_lat = req.lat
        /\ resp.body.center_lng = req.lng

\* C10 amended: the nearby endpoint of the map endpoints does so; the nearby
\* endpoint of the template returns an empty list, total 0 and radius_km the
\* requested radius (50 when omitted), and no center_lat or center_lng.
C10_NearbyUnfiltered ==
    NearbyOk =>
        CASE server = MapApp ->
                /\ TwoFabricatedEntries
                /\ resp.body.wildfires[1].id = 1
                /\ resp.body.wildfires[2].id = 2
                /\ resp.body.total = 2
                /\ resp.body.radius_km = Some(RequestedRadius)
                /\ resp.body.center_lat = req.lat
                /\ resp.body.center_lng = req.lng
          [] server = Template ->
                resp.body = [wildfires |-> <<>>, total |-> 0,
                             radius_km |-> RequestedRadius]

\* The map endpoints answered a query with radius 0 with both entries.
C10_Witness ==
    /\ server = MapApp
    /\ NearbyOk
    /\ req.radius = Some(0)
    /\ Len(resp.body.wildfires) = 2

-----------------------------------------------------------------------------

\* Every risk_level and intensity value of a successful response: at the top
\* level, inside prediction, and in the entries of wildfires.
ReturnedLabels ==
    IF ~Ok THEN {}
    ELSE (IF "risk_level" \in Keys(resp.body) THEN {resp.body.risk_level} ELSE {})
         \cup (IF "prediction" \in Keys(resp.body)
               THEN {resp.body.prediction.risk_level} ELSE {})
         \cup (IF "wildfires" \in Keys(resp.body)
               THEN {resp.body.wildfires[i].intensity :
                        i \in DOMAIN resp.body.wildfires}
               ELSE {})

\* C11 as stated: every risk_level and every intensity an endpoint returns is
\* one of low, medium, high, critical, whatever the model returns.
C11_AsStated == ReturnedLabels \subseteq RiskVocabulary

\* The handlers that return the model's prediction object as it is.
PassThrough == server \in {Ex7, Ex8} /\ req.route = Predict

\* C11 amended: every risk_level and intensity that a handler writes itself
\* (the placeholders, the label lists of Examples 1 and 2, the two labels of
\* Example 3) is one of low, medium, high; Examples 7 and 8 return the
\* model's prediction unchanged, so their risk_level is whatever label the
\* model produced, in the vocabulary or not.
C11_RiskVocabulary ==
    IF PassThrough /\ Ok
    THEN ReturnedLabels = {req.model_out.value.risk_level}
    ELSE ReturnedLabels \subseteq {"low", "medium", "high"}

\* Example 1 answered a score vector whose maximum is the second score.
C11_Witness ==
    /\ server = Ex1
    /\ Ok
    /\ req.model_out = Returns(<<20, 45, 35>>)
    /\ ReturnedLabels = {"medium"}

-----------------------------------------------------------------------------

InProgress(i) == tasks[i].phase # "idle"

\* C12: with the cached loader the body of load_model runs at most once; the
\* startup event has finished loading before a handler calls load_model; and
\* every handler gets the object that the startup event loaded.
C12_LoadedOnce ==
    /\ loads <= 1
    /\ started => loads = 1 /\ loader = "returned" /\ model_cache = Some("model")
    /\ \A i \in TaskIds :
            InProgress(i) => started /\ tasks[i].model = Some("model")

\* Two handlers are in progress, both with the model loaded at startup.
C12_Witness ==
    /\ \A i \in TaskIds : InProgress(i) /\ tasks[i].model = model_cache
    /\ loads = 1

\* The handler's answer is the one the handler gives when it runs alone.
OwnPrediction == Answered => resp = Respond(req, predict_wildfire_ex8(req))

\* C13: model.predict runs on a worker thread only; while it runs the event
\* loop is free to take up another request; and every request is answered
\* with the prediction for its own image.
C13_PredictOffLoop ==
    /\ \A i \in TaskIds :
            tasks[i].phase = "predicting" => tasks[i].thread = WorkerThread
    /\ (\E i, j \in TaskIds :
            tasks[i].phase = "predicting" /\ tasks[j].phase = "idle")
       => ENABLED AcceptRequest
    /\ OwnPrediction

\* A request was answered with its own prediction while model.predict was
\* still running for another request.
C13_Witness ==
    /\ \E i \in TaskIds : tasks[i].phase = "predicting" /\ tasks[i].overtaken
    /\ Ok
    /\ \E i \in TaskIds :
            /\ tasks[i].phase = "predicting"
            /\ tasks[i].request.model_out # req.model_out

-----------------------------------------------------------------------------

\* Example 7 handled a request that has an image part.
Ex7Handled == server = Ex7 /\ Answered /\ req.has_image

\* What the body of the outer try raised is an HTTPException.
RaisedHTTPException(x) == x.media = "json" /\ x.status >= 400

Ex7Details ==
    {"No filename provided", "Empty image file", "Invalid image format",
     "Image too small"}

\* C14: in Example 7 an HTTPException raised inside the outer try reaches the
\* client as it was raised: a 400 stays a 400 with one of the four literal
\* details, the model wrapper's 500 keeps its "ML model error: " detail, and
\* the response is 500 "Server error: " + str(e) exactly when the body
\* raised an exception e that is no HTTPException.
C14_HTTPExceptionPassesThrough ==
    Ex7Handled =>
        LET x == try_body_ex7(req) IN
        /\ RaisedHTTPException(x) =>
                /\ resp.status = x.status
                /\ resp.body = x.body
        /\ resp.status = 400 => IsJson /\ resp.body.detail \in Ex7Details
        /\ (x.media = "text") <=>
                /\ resp.exc # None
                /\ IsHTTPException(500, "Server error: " \o Val(resp.exc))

\* The HTTPException of the filename check, raised inside the outer try, is
\* the response.
C14_Witness ==
    /\ Ex7Handled
    /\ req.filename = ""
    /\ req.upload = Picture
    /\ IsHTTPException(400, "No filename provided")

\* What the checks of Example 7 answer, in their order.
FirstFailingCheck ==
    IF req.filename = "" THEN "No filename provided"
    ELSE IF req.upload.size = 0 THEN "Empty image file"
    ELSE IF req.upload.format # "image" THEN "Invalid image format"
    ELSE IF ~BigEnough THEN "Image too small"
    ELSE ""

\* C15: in Example 7 the first failing check, in the order filename,
\* contents, decoding, dimensions, alone determines the response, a 400 with
\* the detail of that check; the model is called only when all four pass,
\* and an exception of the model becomes 500 "ML model error: " + str(e).
C15_ChecksInOrder ==
    (Ex7Handled /\ req.upload.read_error = None) =>
        IF FirstFailingCheck # ""
        THEN /\ resp.status = 400
             /\ resp.body = [detail |-> FirstFailingCheck]
        ELSE IF req.model_out.error # None
        THEN IsHTTPException(500, "ML model error: " \o Val(req.model_out.error))
        ELSE Ok /\ resp.body = req.model_out.value

\* An empty upload without a filename and with a model that would raise is
\* answered by the filename check.
C15_Witness ==
    /\ Ex7Handled
    /\ req.filename = ""
    /\ req.upload = EmptyFile
    /\ req.model_out.error # None
    /\ IsHTTPException(400, "No filename provided")

-----------------------------------------------------------------------------

\* C16: in every successful response of the nearby and the active endpoint
\* total is the number of entries of wildfires.
C16_TotalCountsEntries ==
    (req.route \in {Nearby, Active} /\ Ok) =>
        resp.body.total = Len(resp.body.wildfires)

\* The active endpoint of the map endpoints answered with its one entry.
C16_Witness ==
    /\ server = MapApp
    /\ req.route = Active
    /\ Ok
    /\ Len(resp.body.wildfires) = 1
    /\ resp.body.total = 1

-----------------------------------------------------------------------------

\* A successful upload whose timestamp, if any, is a field of the multipart
\* form, as the interface table has it.
FormUpload ==
    /\ req.route = Upload
    /\ Ok
    /\ req.query_timestamp = None

\* C17 as stated, for the upload-image handlers of the template, of the
\* backend example and of Example 6: a successful response echoes the
\* filename, the number of bytes read and the submitted timestamp (null when
\* none was submitted), and its prediction is the handler's placeholder.
C17_AsStated ==
    (server \in {Template, Backend, Ex6} /\ FormUpload) =>
        /\ resp.body.filename = req.filename
        /\ resp.body.size = req.upload.size
        /\ resp.body.timestamp = req.form_timestamp
        /\ resp.body.prediction.risk_level = "medium"
        /\ resp.body.prediction.confidence = 75

-----------------------------------------------------------------------------

\* Example 1 answered with a prediction.
Ex1Predicted == server = Ex1 /\ req.route = Predict /\ Ok

\* The labels of the scores that no other score exceeds.
MaximalIndices(scores) ==
    {i \in DOMAIN scores : \A j \in DOMAIN scores : scores[j] <= scores[i]}

\* C18: Example 1 returns the label of a maximal score, the lowest index
\* winning a tie, that score as confidence, and the three scores as
\* all_scores, of which the confidence is the maximum.
C18_LabelOfMaximalScore ==
    Ex1Predicted =>
        LET scores == req.model_out.value
            best == MaximalIndices(scores)
            first == CHOOSE i \in best : \A j \in best : i <= j
            all == resp.body.all_scores
        IN  /\ resp.body.risk_level = <<"low", "medium", "high">>[first]
            /\ resp.body.confidence = scores[first]
            /\ all = [low |-> scores[1], medium |-> scores[2], high |-> scores[3]]
            /\ resp.body.confidence >= all.low
            /\ resp.body.confidence >= all.medium
            /\ resp.body.confidence >= all.high
            /\ resp.body.confidence \in {all.low, all.medium, all.high}

\* Example 1 answered a tie between the first two scores with the first label.
C18_Witness ==
    /\ Ex1Predicted
    /\ req.model_out = Returns(<<50, 50, 0>>)
    /\ resp.body.risk_level = "low"
    /\ resp.body.confidence = 50

-----------------------------------------------------------------------------

\* Every detection row is one for a high or critical prediction, refers to
\* a committed image row, and has its four required columns.
DetectionRowsSound ==
    \A k \in DOMAIN wildfire_detections :
        LET d == wildfire_detections[k] IN
        /\ d.intensity \in {"high", "critical"}
        /\ \E n \in DOMAIN wildfire_images : wildfire_images[n].id = d.image_id
        /\ d.lat # None
        /\ d.lng # None

\* An upload for which the handler has a detection to add: a decodable image
\* with a latitude, a prediction of high risk, and no failing commit.
FireUploaded ==
    /\ server = DbApp
    /\ Answered
    /\ req.has_image
    /\ req.upload = Picture
    /\ req.latitude # None
    /\ req.model_out = Returns([risk_level |-> "high", confidence |-> 85])
    /\ resp.exc # Some("OperationalError")

=============================================================================
